---- MODULE Spec2Model ----
(***************************************************************************)
(* Model of ldm/modules/embedding_shuffler.py: the shuffle policies        *)
(* (shuffle_off .. shuffle_dynamic) and the selector get_shuffler.         *)
(*                                                                         *)
(* A tensor of N rows is a sequence of N row contents.  Index tensors      *)
(* (shuffle_idx) hold 0-based row numbers, as in the source.  A policy is  *)
(* an operator giving the SET of results it can return: torch.randperm is  *)
(* the only source of nondeterminism.  Each result is a record             *)
(*   [idx |-> the 0-based input row numbers gathered, in output order,     *)
(*    out |-> the returned tensor].                                        *)
(***************************************************************************)
EXTENDS Integers, Sequences, FiniteSets

\* Largest number of rows of a placeholder embedding explored.
MaxLen == 5

\* Row contents; two values let distinct rows carry equal contents.
RowVals == {0, 1}

\* Optional[int]: None is the empty sequence, the integer k is <<k>>.
None == <<>>

Some(k) == <<k>>

------------------------------------------------------------------------------
\* Python values given to get_shuffler, with Python's == between them.

PyBool(b) == [t |-> "bool", n |-> IF b THEN 1 ELSE 0, s |-> ""]

PyInt(k) == [t |-> "int", n |-> k, s |-> ""]

PyStr(x) == [t |-> "str", n |-> 0, s |-> x]

PyNone == [t |-> "none", n |-> 0, s |-> ""]

\* bool is a subclass of int: True == 1 and False == 0; a str equals only
\* an equal str; None equals only None.
PyEq(a, b) ==
    IF a.t \in {"bool", "int"} /\ b.t \in {"bool", "int"} THEN a.n = b.n
    ELSE IF a.t = "str" /\ b.t = "str" THEN a.s = b.s
    ELSE a.t = "none" /\ b.t = "none"

------------------------------------------------------------------------------
\* Tensor helpers.

\* ldm.util.default(val, d): val unless it is None, then d.
default(val, d) == IF val = None THEN d ELSE val[1]

\* idx_of(value, device): the one-element index tensor.
idx_of(value) == <<value>>

\* tensor[:n]
Slice(tensor, n) == SubSeq(tensor, 1, n)

\* tensor[index]: gathers the rows named by a 0-based index tensor.
Gather(tensor, index) == [i \in 1..Len(index) |-> tensor[index[i] + 1]]

\* index + k, elementwise.
Plus(index, k) == [i \in 1..Len(index) |-> index[i] + k]

\* The rows a slice tensor[:n] takes, as an index tensor.
Arange(n) == [i \in 1..n |-> i - 1]

\* p with value v inserted so that it becomes element k.
InsertAt(p, k, v) == SubSeq(p, 1, k - 1) \o <<v>> \o SubSeq(p, k, Len(p))

RECURSIVE Perms(_)
Perms(n) ==
    IF n = 0 THEN {<<>>}
    ELSE UNION {{InsertAt(p, k, n - 1) : k \in 1..n} : p \in Perms(n - 1)}

\* torch.randperm(n): any permutation of 0..n-1.
randperm(n) == Perms(n)

Result(index, tensor) == [idx |-> index, out |-> tensor]

------------------------------------------------------------------------------
\* The policies.

\* shuffle_off without the trim: the whole embedding whatever the count.
shuffle_off_untrimmed(placeholder_embedding, num_vectors) ==
    {Result(Arange(Len(placeholder_embedding)), placeholder_embedding)}

\* shuffle_off with the slice one row short.
shuffle_off_short(placeholder_embedding, num_vectors) ==
    LET nv == default(num_vectors, Len(placeholder_embedding))
    IN  IF nv = Len(placeholder_embedding)
        THEN {Result(Arange(nv), placeholder_embedding)}
        ELSE IF nv = 0 THEN {Result(Arange(0), Slice(placeholder_embedding, 0))}
        ELSE {Result(Arange(nv - 1), Slice(placeholder_embedding, nv - 1))}

shuffle_off(placeholder_embedding, num_vectors) ==
    LET nv == default(num_vectors, Len(placeholder_embedding))
    IN  IF nv = Len(placeholder_embedding)
        THEN {Result(Arange(nv), placeholder_embedding)}
        ELSE {Result(Arange(nv), Slice(placeholder_embedding, nv))}

\* shuffle_all permuting the untrimmed embedding and trimming afterwards.
shuffle_all_late_trim(placeholder_embedding, num_vectors) ==
    LET nv == default(num_vectors, Len(placeholder_embedding))
    IN  IF nv >= 2
        THEN {Result(shuffle_idx, Gather(placeholder_embedding, shuffle_idx)) :
                 shuffle_idx \in {Slice(p, nv) :
                                     p \in randperm(Len(placeholder_embedding))}}
        ELSE shuffle_off(placeholder_embedding, Some(nv))

shuffle_all(placeholder_embedding, num_vectors) ==
    LET nv == default(num_vectors, Len(placeholder_embedding))
        trim_source == Slice(placeholder_embedding, nv)
    IN  IF nv >= 2
        THEN {Result(shuffle_idx, Gather(trim_source, shuffle_idx)) :
                 shuffle_idx \in randperm(nv)}
        ELSE shuffle_off(placeholder_embedding, Some(nv))

shuffle_trailing(placeholder_embedding, num_vectors) ==
    LET nv == default(num_vectors, Len(placeholder_embedding))
        trim_source == Slice(placeholder_embedding, nv)
    IN  IF nv >= 3
        THEN {Result(shuffle_idx, Gather(trim_source, shuffle_idx)) :
                 shuffle_idx \in {idx_of(0) \o Plus(p, 1) : p \in randperm(nv - 1)}}
        ELSE shuffle_off(placeholder_embedding, Some(nv))

\* shuffle_leading with the anchor concatenated in front.
shuffle_leading_anchor_first(placeholder_embedding, num_vectors) ==
    LET nv == default(num_vectors, Len(placeholder_embedding))
        trim_source == Slice(placeholder_embedding, nv)
    IN  IF nv >= 3
        THEN {Result(shuffle_idx, Gather(trim_source, shuffle_idx)) :
                 shuffle_idx \in {idx_of(nv - 1) \o p : p \in randperm(nv - 1)}}
        ELSE shuffle_off(placeholder_embedding, Some(nv))

shuffle_leading(placeholder_embedding, num_vectors) ==
    LET nv == default(num_vectors, Len(placeholder_embedding))
        trim_source == Slice(placeholder_embedding, nv)
    IN  IF nv >= 3
        THEN {Result(shuffle_idx, Gather(trim_source, shuffle_idx)) :
                 shuffle_idx \in {p \o idx_of(nv - 1) : p \in randperm(nv - 1)}}
        ELSE shuffle_off(placeholder_embedding, Some(nv))

shuffle_between(placeholder_embedding, num_vectors) ==
    LET nv == default(num_vectors, Len(placeholder_embedding))
        trim_source == Slice(placeholder_embedding, nv)
    IN  IF nv >= 4
        THEN {Result(shuffle_idx, Gather(trim_source, shuffle_idx)) :
                 shuffle_idx \in {idx_of(0) \o Plus(p, 1) \o idx_of(nv - 1) :
                                     p \in randperm(nv - 2)}}
        ELSE shuffle_off(placeholder_embedding, Some(nv))

\* shuffle_progressive without its count == 2 branch.
shuffle_progressive_no_pair(placeholder_embedding, num_vectors) ==
    LET nv == default(num_vectors, Len(placeholder_embedding))
        last_idx == Len(placeholder_embedding) - 1
    IN  IF nv > 2
        THEN {Result(shuffle_idx, Gather(placeholder_embedding, shuffle_idx)) :
                 shuffle_idx \in {idx_of(0) \o Plus(p, 1) \o idx_of(last_idx) :
                                     p \in randperm(nv - 2)}}
        ELSE shuffle_off(placeholder_embedding, Some(nv))

\* shuffle_progressive taking the pair branch for every count up to 2.
shuffle_progressive_low_pair(placeholder_embedding, num_vectors) ==
    LET nv == default(num_vectors, Len(placeholder_embedding))
        last_idx == Len(placeholder_embedding) - 1
    IN  IF nv <= 2 /\ Len(placeholder_embedding) >= 1
        THEN LET shuffle_idx == idx_of(0) \o idx_of(last_idx)
             IN  {Result(shuffle_idx, Gather(placeholder_embedding, shuffle_idx))}
        ELSE IF nv > 2
        THEN {Result(shuffle_idx, Gather(placeholder_embedding, shuffle_idx)) :
                 shuffle_idx \in {idx_of(0) \o Plus(p, 1) \o idx_of(last_idx) :
                                     p \in randperm(nv - 2)}}
        ELSE shuffle_off(placeholder_embedding, Some(nv))

\* shuffle_progressive anchored to the trimmed last row, as shuffle_between is.
shuffle_progressive_trim_anchor(placeholder_embedding, num_vectors) ==
    LET nv == default(num_vectors, Len(placeholder_embedding))
        last_idx == nv - 1
    IN  IF nv = 2
        THEN LET shuffle_idx == idx_of(0) \o idx_of(last_idx)
             IN  {Result(shuffle_idx, Gather(placeholder_embedding, shuffle_idx))}
        ELSE IF nv > 2
        THEN {Result(shuffle_idx, Gather(placeholder_embedding, shuffle_idx)) :
                 shuffle_idx \in {idx_of(0) \o Plus(p, 1) \o idx_of(last_idx) :
                                     p \in randperm(nv - 2)}}
        ELSE shuffle_off(placeholder_embedding, Some(nv))

shuffle_progressive(placeholder_embedding, num_vectors) ==
    LET nv == default(num_vectors, Len(placeholder_embedding))
        last_idx == Len(placeholder_embedding) - 1
    IN  IF nv = 2
        THEN LET shuffle_idx == idx_of(0) \o idx_of(last_idx)
             IN  {Result(shuffle_idx, Gather(placeholder_embedding, shuffle_idx))}
        ELSE IF nv > 2
        THEN {Result(shuffle_idx, Gather(placeholder_embedding, shuffle_idx)) :
                 shuffle_idx \in {idx_of(0) \o Plus(p, 1) \o idx_of(last_idx) :
                                     p \in randperm(nv - 2)}}
        ELSE shuffle_off(placeholder_embedding, Some(nv))

\* shuffle_dynamic sending count 3 to between as well.
shuffle_dynamic_between_at_3(placeholder_embedding, num_vectors) ==
    LET nv == default(num_vectors, Len(placeholder_embedding))
    IN  IF nv >= 3 THEN shuffle_between(placeholder_embedding, Some(nv))
        ELSE shuffle_all(placeholder_embedding, Some(nv))

shuffle_dynamic(placeholder_embedding, num_vectors) ==
    LET nv == default(num_vectors, Len(placeholder_embedding))
    IN  IF nv >= 4 THEN shuffle_between(placeholder_embedding, Some(nv))
        ELSE IF nv = 3 THEN shuffle_trailing(placeholder_embedding, Some(nv))
        ELSE shuffle_all(placeholder_embedding, Some(nv))

------------------------------------------------------------------------------
\* The selector.  A policy is named by the name of its function.

\* get_shuffler without the "on" alias.
get_shuffler_no_on(shuffle_mode) ==
    LET mode == IF PyEq(shuffle_mode, PyBool(TRUE)) THEN PyStr("all")
                ELSE IF PyEq(shuffle_mode, PyBool(FALSE)) THEN PyStr("off")
                ELSE shuffle_mode
    IN  IF PyEq(mode, PyStr("all")) THEN "shuffle_all"
        ELSE IF PyEq(mode, PyStr("dynamic")) THEN "shuffle_dynamic"
        ELSE IF PyEq(mode, PyStr("progressive")) THEN "shuffle_progressive"
        ELSE IF PyEq(mode, PyStr("between")) THEN "shuffle_between"
        ELSE IF PyEq(mode, PyStr("trailing")) THEN "shuffle_trailing"
        ELSE IF PyEq(mode, PyStr("leading")) THEN "shuffle_leading"
        ELSE "shuffle_off"

\* get_shuffler whose final default is the all policy.
get_shuffler_default_all(shuffle_mode) ==
    LET mode == IF PyEq(shuffle_mode, PyBool(TRUE)) THEN PyStr("all")
                ELSE IF PyEq(shuffle_mode, PyStr("on")) THEN PyStr("all")
                ELSE IF PyEq(shuffle_mode, PyBool(FALSE)) THEN PyStr("off")
                ELSE shuffle_mode
    IN  IF PyEq(mode, PyStr("off")) THEN "shuffle_off"
        ELSE IF PyEq(mode, PyStr("dynamic")) THEN "shuffle_dynamic"
        ELSE IF PyEq(mode, PyStr("progressive")) THEN "shuffle_progressive"
        ELSE IF PyEq(mode, PyStr("between")) THEN "shuffle_between"
        ELSE IF PyEq(mode, PyStr("trailing")) THEN "shuffle_trailing"
        ELSE IF PyEq(mode, PyStr("leading")) THEN "shuffle_leading"
        ELSE "shuffle_all"

get_shuffler(shuffle_mode) ==
    LET mode == IF PyEq(shuffle_mode, PyBool(TRUE)) THEN PyStr("all")
                ELSE IF PyEq(shuffle_mode, PyStr("on")) THEN PyStr("all")
                ELSE IF PyEq(shuffle_mode, PyBool(FALSE)) THEN PyStr("off")
                ELSE shuffle_mode
    IN  IF PyEq(mode, PyStr("all")) THEN "shuffle_all"
        ELSE IF PyEq(mode, PyStr("dynamic")) THEN "shuffle_dynamic"
        ELSE IF PyEq(mode, PyStr("progressive")) THEN "shuffle_progressive"
        ELSE IF PyEq(mode, PyStr("between")) THEN "shuffle_between"
        ELSE IF PyEq(mode, PyStr("trailing")) THEN "shuffle_trailing"
        ELSE IF PyEq(mode, PyStr("leading")) THEN "shuffle_leading"
        ELSE "shuffle_off"

------------------------------------------------------------------------------
\* The state machine: a caller selects a policy, then applies it once.

VARIABLES
    pc,                     \* "start", "selected" or "done"
    arg,                    \* the value get_shuffler was called with
    fn,                     \* the policy get_shuffler returned
    placeholder_embedding,  \* the policy's first argument
    num_vectors,            \* the policy's second argument (None when omitted)
    idx,                    \* input row numbers of the returned rows
    out                     \* the returned tensor

vars == <<pc, arg, fn, placeholder_embedding, num_vectors, idx, out>>

ModeStrings ==
    {"off", "all", "trailing", "leading", "between", "progressive", "dynamic"}

\* Values a caller may hand to get_shuffler.
ModeInputs ==
    {PyBool(TRUE), PyBool(FALSE), PyNone, PyInt(0), PyInt(1), PyInt(2)}
        \cup {PyStr(x) : x \in ModeStrings \cup {"on", "nonsense", ""}}

\* Embeddings of 0..MaxLen rows.
Embeddings == UNION {[1..n -> RowVals] : n \in 0..MaxLen}

\* Counts within the precondition 0 <= count <= N, or omitted.
Counts(emb) == {None} \cup {Some(k) : k \in 0..Len(emb)}

Init ==
    /\ pc = "start"
    /\ arg = PyNone
    /\ fn = "none"
    /\ placeholder_embedding = <<>>
    /\ num_vectors = None
    /\ idx = <<>>
    /\ out = <<>>

GetShuffler ==
    /\ pc = "start"
    /\ \E m \in ModeInputs :
          /\ arg' = m
          /\ fn' = get_shuffler(m)
    /\ pc' = "selected"
    /\ UNCHANGED <<placeholder_embedding, num_vectors, idx, out>>

\* One call of the selected policy, returning one of its possible results.
Returns(emb, nv, r) ==
    /\ placeholder_embedding' = emb
    /\ num_vectors' = nv
    /\ idx' = r.idx
    /\ out' = r.out
    /\ pc' = "done"
    /\ UNCHANGED <<arg, fn>>

CallOff ==
    /\ pc = "selected" /\ fn = "shuffle_off"
    /\ \E emb \in Embeddings : \E nv \in Counts(emb) :
          \E r \in shuffle_off(emb, nv) : Returns(emb, nv, r)

CallAll ==
    /\ pc = "selected" /\ fn = "shuffle_all"
    /\ \E emb \in Embeddings : \E nv \in Counts(emb) :
          \E r \in shuffle_all(emb, nv) : Returns(emb, nv, r)

CallTrailing ==
    /\ pc = "selected" /\ fn = "shuffle_trailing"
    /\ \E emb \in Embeddings : \E nv \in Counts(emb) :
          \E r \in shuffle_trailing(emb, nv) : Returns(emb, nv, r)

CallLeading ==
    /\ pc = "selected" /\ fn = "shuffle_leading"
    /\ \E emb \in Embeddings : \E nv \in Counts(emb) :
          \E r \in shuffle_leading(emb, nv) : Returns(emb, nv, r)

CallBetween ==
    /\ pc = "selected" /\ fn = "shuffle_between"
    /\ \E emb \in Embeddings : \E nv \in Counts(emb) :
          \E r \in shuffle_between(emb, nv) : Returns(emb, nv, r)

CallProgressive ==
    /\ pc = "selected" /\ fn = "shuffle_progressive"
    /\ \E emb \in Embeddings : \E nv \in Counts(emb) :
          \E r \in shuffle_progressive(emb, nv) : Returns(emb, nv, r)

CallDynamic ==
    /\ pc = "selected" /\ fn = "shuffle_dynamic"
    /\ \E emb \in Embeddings : \E nv \in Counts(emb) :
          \E r \in shuffle_dynamic(emb, nv) : Returns(emb, nv, r)

Next ==
    \/ GetShuffler
    \/ CallOff
    \/ CallAll
    \/ CallTrailing
    \/ CallLeading
    \/ CallBetween
    \/ CallProgressive
    \/ CallDynamic

Spec == Init /\ [][Next]_vars

------------------------------------------------------------------------------
\* Vocabulary of the properties.

\* N: rows of the input; count: the effective count of the call.
N == Len(placeholder_embedding)

count == default(num_vectors, N)

Done == pc = "done"

Called(f) == pc = "done" /\ fn = f

Range(s) == {s[i] : i \in DOMAIN s}

\* s lists every member of S exactly once.
IsArrangementOf(s, S) == Len(s) = Cardinality(S) /\ Range(s) = S

RECURSIVE Factorial(_)
Factorial(n) == IF n <= 1 THEN 1 ELSE n * Factorial(n - 1)

\* The row numbers / the tensors a set of results offers.
IdxOf(R) == {r.idx : r \in R}

OutOf(R) == {r.out : r \in R}

\* What policy f can return on the arguments of the call in the state.
Possible(f) ==
    CASE f = "shuffle_off" -> shuffle_off(placeholder_embedding, num_vectors)
      [] f = "shuffle_all" -> shuffle_all(placeholder_embedding, num_vectors)
      [] f = "shuffle_trailing" -> shuffle_trailing(placeholder_embedding, num_vectors)
      [] f = "shuffle_leading" -> shuffle_leading(placeholder_embedding, num_vectors)
      [] f = "shuffle_between" -> shuffle_between(placeholder_embedding, num_vectors)
      [] f = "shuffle_progressive" -> shuffle_progressive(placeholder_embedding, num_vectors)
      [] f = "shuffle_dynamic" -> shuffle_dynamic(placeholder_embedding, num_vectors)

\* The returned rows are the input rows idx names.
RowsAreInputRows ==
    /\ Len(out) = Len(idx)
    /\ \A i \in 1..Len(idx) :
          /\ idx[i] \in 0..(N - 1)
          /\ out[i] = placeholder_embedding[idx[i] + 1]

\* s with its last element replaced by v.
ReplaceLast(s, v) == [i \in 1..Len(s) |-> IF i = Len(s) THEN v ELSE s[i]]

TypeOK ==
    /\ pc \in {"start", "selected", "done"}
    /\ fn \in {"none"} \cup {"shuffle_" \o m : m \in ModeStrings}
    /\ placeholder_embedding \in Embeddings
    /\ num_vectors \in Counts(placeholder_embedding)

------------------------------------------------------------------------------
\* C1 (as stated): after a call of any policy with 0 <= count <= N, the
\* returned rows are input rows 0..count-1, each exactly once, and no row
\* with index >= count is returned.
C1_AsStated ==
    Done => /\ RowsAreInputRows
            /\ IsArrangementOf(idx, 0..(count - 1))

\* C1 (amended): the same for every policy but progressive, and for
\* progressive when count < 2 or count = N; progressive with 2 <= count < N
\* returns rows 0..count-2 and row N-1, each exactly once: row N-1 (index
\* >= count) is shuffled in and row count-1 is dropped.
C1_Amended ==
    Done =>
        /\ RowsAreInputRows
        /\ IF fn = "shuffle_progressive" /\ 2 <= count /\ count < N
           THEN /\ IsArrangementOf(idx, (0..(count - 2)) \cup {N - 1})
                /\ (count - 1) \notin Range(idx)
           ELSE IsArrangementOf(idx, 0..(count - 1))

\* A trimmed shuffle that moved rows, and (separately reachable) a
\* progressive call that pulled in row N-1.
C1_Witness ==
    /\ Called("shuffle_all")
    /\ count = 3 /\ N = 5
    /\ idx = <<2, 0, 1>>

C1_ProgressiveWitness ==
    /\ Called("shuffle_progressive")
    /\ count = 3 /\ N = 5
    /\ idx = <<0, 1, 4>>

\* C2: after a call of any policy the output has exactly count rows; with
\* the count omitted it has exactly N rows; it never has more rows than the
\* input.
C2_Length ==
    Done => /\ Len(out) = count
            /\ (num_vectors = None => Len(out) = N)
            /\ Len(out) <= N

C2_Witness ==
    /\ Called("shuffle_leading")
    /\ num_vectors = Some(3) /\ N = 5
    /\ Len(out) = 3

\* C3: trailing (count >= 3) keeps row 0 first and arranges rows 1..count-1
\* behind it; leading (count >= 3) keeps row count-1 last and arranges rows
\* 0..count-2 before it; between (count >= 4) keeps rows 0 and count-1 at the
\* ends and arranges rows 1..count-2 inside.  Every such arrangement can be
\* returned: the possible results are all valid and as many as there are
\* arrangements.
TrailingShape(s, c) ==
    /\ Len(s) = c
    /\ s[1] = 0
    /\ IsArrangementOf(SubSeq(s, 2, c), 1..(c - 1))

LeadingShape(s, c) ==
    /\ Len(s) = c
    /\ s[c] = c - 1
    /\ IsArrangementOf(SubSeq(s, 1, c - 1), 0..(c - 2))

BetweenShape(s, c) ==
    /\ Len(s) = c
    /\ s[1] = 0
    /\ s[c] = c - 1
    /\ IsArrangementOf(SubSeq(s, 2, c - 1), 1..(c - 2))

\* The argument pairs a caller may pass with an effective count of at least k.
ArgsFrom(k) ==
    {a \in UNION {{<<emb, nv>> : nv \in Counts(emb)} : emb \in Embeddings} :
        default(a[2], Len(a[1])) >= k}

C3_Anchors ==
    /\ Called("shuffle_trailing") /\ count >= 3 =>
          /\ RowsAreInputRows
          /\ TrailingShape(idx, count)
          /\ out[1] = placeholder_embedding[1]
    /\ Called("shuffle_leading") /\ count >= 3 =>
          /\ RowsAreInputRows
          /\ LeadingShape(idx, count)
          /\ out[count] = placeholder_embedding[count]
    /\ Called("shuffle_between") /\ count >= 4 =>
          /\ RowsAreInputRows
          /\ BetweenShape(idx, count)
          /\ out[1] = placeholder_embedding[1]
          /\ out[count] = placeholder_embedding[count]
    \* Every arrangement is possible: on every argument pair the possible
    \* results are all of the shape and as many as there are arrangements.
    /\ pc = "selected" /\ fn = "shuffle_trailing" =>
          \A a \in ArgsFrom(3) :
             LET c == default(a[2], Len(a[1]))
                 S == IdxOf(shuffle_trailing(a[1], a[2]))
             IN  /\ \A s \in S : TrailingShape(s, c)
                 /\ Cardinality(S) = Factorial(c - 1)
    /\ pc = "selected" /\ fn = "shuffle_leading" =>
          \A a \in ArgsFrom(3) :
             LET c == default(a[2], Len(a[1]))
                 S == IdxOf(shuffle_leading(a[1], a[2]))
             IN  /\ \A s \in S : LeadingShape(s, c)
                 /\ Cardinality(S) = Factorial(c - 1)
    /\ pc = "selected" /\ fn = "shuffle_between" =>
          \A a \in ArgsFrom(4) :
             LET c == default(a[2], Len(a[1]))
                 S == IdxOf(shuffle_between(a[1], a[2]))
             IN  /\ \A s \in S : BetweenShape(s, c)
                 /\ Cardinality(S) = Factorial(c - 2)

C3_Witness ==
    /\ Called("shuffle_leading")
    /\ count = 4 /\ N = 5
    /\ idx = <<2, 0, 1, 3>>

\* C4: progressive with count = 2 returns exactly [row 0, row N-1]; with
\* 2 < count <= N it returns row 0, an arrangement of rows 1..count-2, then
\* row N-1: the last row is the original final row, not row count-1.
C4_Progressive ==
    Called("shuffle_progressive") /\ count >= 2 =>
        /\ RowsAreInputRows
        /\ Len(idx) = count
        /\ idx[1] = 0
        /\ idx[count] = N - 1
        /\ out[1] = placeholder_embedding[1]
        /\ out[count] = placeholder_embedding[N]
        /\ IsArrangementOf(SubSeq(idx, 2, count - 1), 1..(count - 2))
        /\ count = 2 => /\ idx = <<0, N - 1>>
                        /\ IdxOf(Possible(fn)) = {<<0, N - 1>>}
        /\ Cardinality(IdxOf(Possible(fn))) = Factorial(count - 2)

C4_Witness ==
    /\ Called("shuffle_progressive")
    /\ count = 2 /\ N = 5
    /\ idx = <<0, 4>>

C4_LongWitness ==
    /\ Called("shuffle_progressive")
    /\ count = 4 /\ N = 5
    /\ idx = <<0, 2, 1, 4>>

\* C5: below its threshold (all: count < 2; trailing, leading: count < 3;
\* between: count < 4; progressive: count < 2) a policy returns what off
\* returns for that count: rows 0..count-1 in their original order, and
\* nothing else is possible.
BelowThreshold ==
    \/ fn = "shuffle_all" /\ count < 2
    \/ fn \in {"shuffle_trailing", "shuffle_leading"} /\ count < 3
    \/ fn = "shuffle_between" /\ count < 4
    \/ fn = "shuffle_progressive" /\ count < 2

C5_Fallback ==
    Done /\ BelowThreshold =>
        /\ idx = Arange(count)
        /\ out = SubSeq(placeholder_embedding, 1, count)
        /\ Possible(fn) = Possible("shuffle_off")
        /\ Possible(fn) = {[idx |-> idx, out |-> out]}

C5_Witness ==
    /\ Called("shuffle_between")
    /\ count = 3 /\ N = 5
    /\ idx = <<0, 1, 2>>

\* C6: the possible results of dynamic are those of between when
\* count >= 4, of trailing when count = 3, of all when count <= 2 (the count
\* omitted counting as N).
C6_Dynamic ==
    Called("shuffle_dynamic") =>
        /\ [idx |-> idx, out |-> out] \in Possible(fn)
        /\ count >= 4 => Possible(fn) = Possible("shuffle_between")
        /\ count = 3 => Possible(fn) = Possible("shuffle_trailing")
        /\ count <= 2 => Possible(fn) = Possible("shuffle_all")

C6_Witness ==
    /\ Called("shuffle_dynamic")
    /\ count = 3 /\ N = 4
    /\ idx = <<0, 2, 1>>

\* C7: get_shuffler gives True, "all" and "on" the all policy, False and
\* "off" the off policy, and each of "trailing", "leading", "between",
\* "progressive", "dynamic" its own policy, all seven policies distinct.
C7_Aliases ==
    pc # "start" =>
        /\ arg \in {PyBool(TRUE), PyStr("all"), PyStr("on")} => fn = "shuffle_all"
        /\ arg \in {PyBool(FALSE), PyStr("off")} => fn = "shuffle_off"
        /\ \A m \in ModeStrings : arg = PyStr(m) => fn = "shuffle_" \o m
        /\ pc = "selected" =>
              Cardinality({get_shuffler(PyStr(m)) : m \in ModeStrings})
                  = Cardinality(ModeStrings)

C7_Witness ==
    /\ pc = "selected"
    /\ arg = PyStr("on")
    /\ fn = "shuffle_all"

\* C8 (as stated): every input that is not True, False, "on" or a mode
\* string gets the off policy.
Recognized ==
    {PyBool(TRUE), PyBool(FALSE), PyStr("on")} \cup {PyStr(m) : m \in ModeStrings}

C8_AsStated ==
    pc # "start" /\ arg \notin Recognized => fn = "shuffle_off"

\* C8 (amended): every input that does not compare equal (Python ==) to
\* True, False, "on" or a mode string gets the off policy; the number 1
\* equals True and gets the all policy, the number 0 equals False and gets
\* the off policy.
C8_Amended ==
    pc # "start" =>
        /\ (\A r \in Recognized : ~PyEq(arg, r)) => fn = "shuffle_off"
        /\ arg = PyInt(1) => fn = "shuffle_all"
        /\ arg = PyInt(0) => fn = "shuffle_off"

C8_Witness ==
    /\ pc = "selected"
    /\ arg = PyStr("nonsense")
    /\ fn = "shuffle_off"

\* C9: off returns exactly rows 0..k-1 in their original order and nothing
\* else is possible, so two calls agree; with k omitted or k = N the output
\* is the whole input.
C9_Off ==
    Called("shuffle_off") =>
        /\ idx = Arange(count)
        /\ Len(out) = count
        /\ \A i \in 1..count : out[i] = placeholder_embedding[i]
        /\ Possible(fn) = {[idx |-> idx, out |-> out]}
        /\ (num_vectors = None \/ count = N) => out = placeholder_embedding

C9_Witness ==
    /\ Called("shuffle_off")
    /\ num_vectors = Some(2) /\ N = 4
    /\ out = SubSeq(placeholder_embedding, 1, 2)

\* C10: for 2 <= count <= N the possible results of progressive are those of
\* between with the last output row replaced by input row N-1; with
\* count = N the two policies have the same possible results.
C10_ProgressiveVsBetween ==
    Called("shuffle_progressive") /\ count >= 2 =>
        /\ IdxOf(Possible(fn)) =
              {ReplaceLast(s, N - 1) : s \in IdxOf(Possible("shuffle_between"))}
        /\ OutOf(Possible(fn)) =
              {ReplaceLast(o, placeholder_embedding[N]) :
                  o \in OutOf(Possible("shuffle_between"))}
        /\ count = N => Possible(fn) = Possible("shuffle_between")

C10_Witness ==
    /\ Called("shuffle_progressive")
    /\ count = 4 /\ N = 5
    /\ idx = <<0, 1, 2, 4>>

====
